---- MODULE Spec2Model ----
(***************************************************************************)
(* A model of ndmapp.py, the NDMA interactive data app.                    *)
(*                                                                         *)
(* The program is a Streamlit script.  Every run of the script calls       *)
(* main(), which calls the two memoized functions load_data() and          *)
(* process_data(df), lets the user pick a year, filters both tables and    *)
(* renders a map and eleven charts.  Between runs the environment may      *)
(* change the CSV file the loader reads, and the server process may be     *)
(* restarted, which empties the in-process st.cache_data caches.           *)
(*                                                                         *)
(* Conventions of the model.                                               *)
(*  - A CSV cell is a string; "" is an empty cell.                         *)
(*  - A text column read by pandas holds the cell's text, or NaN (the      *)
(*    string "NaN": pandas reads both the empty cell and the text NaN as   *)
(*    the missing value, so no text cell can hold that string).            *)
(*  - A datetime is a tuple <<year, month, day>>; NaT is <<>>.             *)
(*  - A numeric year is <<y>>; the missing year (NaN) is <<>>.             *)
(*  - percent is kept in hundredths (6667 stands for 66.67), with exact    *)
(*    integer arithmetic instead of binary floating point.                 *)
(*  - A record table (DataFrame) is a sequence of rows in file order; a    *)
(*    summary table is the set of its rows (groupby's sorted row order is  *)
(*    not modelled).                                                       *)
(*  - Only the columns the claims are about are kept: the date, Region,    *)
(*    District and Type of Incident.                                       *)
(***************************************************************************)
EXTENDS Integers, Sequences, FiniteSets, TLC

VARIABLES
    file,           \* the data rows of 051022NDMADATABASE_tej.csv, as they are now
    load_cache,     \* st.cache_data's entries for load_data
    process_cache,  \* st.cache_data's entries for process_data
    status,         \* the last run of main: "none" | "rendered" | "error"
    run_file,       \* the file's rows as they were at the last run of main
    load_runs,      \* how many times load_data's body ran in the last run
    load_result,    \* what load_data() did in the last run: "none" | "returned" | "raised"
    errors,         \* the st.error messages of the last run
    df,             \* main's df in the last run
    dfs,            \* main's dfs in the last run
    selector,       \* the year selectbox of the last run
    year_chosen,    \* main's year_chosen in the last run
    dff,            \* main's dff in the last run
    dfy,            \* main's dfy in the last run
    charts          \* the plotly charts of the last run, in render order

vars == <<file, load_cache, process_cache, status, run_file, load_runs,
          load_result, errors, df, dfs, selector, year_chosen, dff, dfy, charts>>

\* The longest file (data rows) of the model.
MaxRows == 3

---------------------------------------------------------------------------
(* Values *)

NaN == "NaN"      \* a missing value in a text column
NaT == <<>>       \* a missing datetime
NaNYear == <<>>   \* a missing value in the numeric year/month columns

\* The date texts of the model and the dates pandas parses them to.
Calendar ==
    [t \in {"2020-03-14", "2021-07-14"} |->
        IF t = "2020-03-14" THEN <<2020, 3, 14>> ELSE <<2021, 7, 14>>]

UnparseableDate == "14th of Juvember"

\* The rows the environment writes to the file.
Rows ==
    { [date |-> "2020-03-14", Region |-> "East", District |-> "Kenema", Type |-> "fire"],
      [date |-> "2020-03-14", Region |-> "West", District |-> "Bo", Type |-> "Flash Flood"],
      [date |-> "2021-07-14", Region |-> "East", District |-> "Kenema", Type |-> "Bolder Roll"],
      [date |-> "", Region |-> "East", District |-> "Kenema", Type |-> "Fire"],
      [date |-> "2021-07-14", Region |-> "", District |-> "Bo", Type |-> "FIRE"],
      [date |-> UnparseableDate, Region |-> "West", District |-> "Bo", Type |-> "Wildfire"] }

---------------------------------------------------------------------------
(* load_data *)

\* A text cell as read_csv reads it: the empty cell is the missing value.
ReadCell(text) == IF text = "" THEN NaN ELSE text

\* Whether pandas can make a datetime of a date cell (the empty cell is NaT).
Parseable(text) == text = "" \/ text \in DOMAIN Calendar

\* The datetime of one cell of a column pandas converted (every cell of such
\* a column is parseable).
to_datetime(text) == IF text \in DOMAIN Calendar THEN Calendar[text] ELSE NaT

\* The dtype read_csv(parse_dates=[...]) gives the date column: with no data
\* row the parser returns its empty frame before any date conversion, and a
\* column with a cell it cannot parse is left as text; both are dtype object.
DateDtype(rows) ==
    IF Len(rows) = 0 THEN "object"
    ELSE IF \A i \in DOMAIN rows : Parseable(rows[i].date) THEN "datetime64"
    ELSE "object"

\* .dt.year and .dt.month of one datetime.
dt_year(d) == IF d = NaT THEN NaNYear ELSE <<d[1]>>
dt_month(d) == IF d = NaT THEN NaNYear ELSE <<d[2]>>

\* A replacement that ignores case.
replace_any_case(v) ==
    CASE v \in {"fire", "Fire", "FIRE"} -> "Fire"
      [] v \in {"Flash Flood", "flash flood"} -> "Flooding"
      [] v \in {"Bolder Roll", "bolder roll"} -> "Boulder Roll"
      [] OTHER -> v

\* Series.replace with the dict of lines 12-16: whole-value, case-sensitive.
replace(v) ==
    CASE v = "fire" -> "Fire"
      [] v = "Flash Flood" -> "Flooding"
      [] v = "Bolder Roll" -> "Boulder Roll"
      [] OTHER -> v

\* One row of the frame load_data returns.
LoadRow(r) ==
    [date |-> to_datetime(r.date),
     year |-> dt_year(to_datetime(r.date)),
     month |-> dt_month(to_datetime(r.date)),
     Region |-> ReadCell(r.Region),
     District |-> ReadCell(r.District),
     Type |-> replace(ReadCell(r.Type))]

\* A loader that drops the rows whose date it cannot parse.
load_data_skipping(rows) ==
    LET good == SelectSeq(rows, LAMBDA r : Parseable(r.date))
    IN  [raised |-> FALSE, value |-> [i \in DOMAIN good |-> LoadRow(good[i])]]

\* The body of load_data on the file's rows: the .dt accessor raises
\* AttributeError on a column that is not datetime-like.
load_data(rows) ==
    IF DateDtype(rows) # "datetime64"
    THEN [raised |-> TRUE, value |-> <<>>]
    ELSE [raised |-> FALSE, value |-> [i \in DOMAIN rows |-> LoadRow(rows[i])]]

---------------------------------------------------------------------------
(* process_data *)

GroupKey(r) == <<r.year, r.Region, r.District, r.Type>>

\* groupby's default dropna=True leaves out a row with a missing key.
HasNaKey(r) ==
    r.year = NaNYear \/ r.Region = NaN \/ r.District = NaN \/ r.Type = NaN

\* groupby([...]).size().reset_index(name='Frequency'): one row for each
\* observed key, with the number of rows of that key.
GroupSizes(d) ==
    LET kept == {i \in DOMAIN d : ~HasNaKey(d[i])}
    IN  { [year |-> d[i].year, Region |-> d[i].Region, District |-> d[i].District,
           Type |-> d[i].Type,
           Frequency |-> Cardinality({j \in kept : GroupKey(d[j]) = GroupKey(d[i])})]
          : i \in kept }

RECURSIVE SumFrequency(_)
\* dfs['Frequency'].sum()
SumFrequency(rows) ==
    IF rows = {} THEN 0
    ELSE LET r == CHOOSE x \in rows : TRUE
         IN  r.Frequency + SumFrequency(rows \ {r})

\* The total of the rows of the row's own year.
DenominatorOfYear(rows, row) == SumFrequency({r \in rows : r.year = row.year})

\* The denominator of a row's percent: the total over the whole summary.
Denominator(rows, row) == SumFrequency(rows)

\* num/den rounded to the nearest integer, ties to the even one (numpy's round).
RoundHalfEven(num, den) ==
    LET q == num \div den
        r == num % den
    IN  IF 2 * r < den THEN q
        ELSE IF 2 * r > den THEN q + 1
        ELSE IF q % 2 = 0 THEN q ELSE q + 1

\* A rounding to whole percents.
round0(num, den) == 100 * RoundHalfEven(num, den)

\* (num / den).round(2), in hundredths.
round2(num, den) == RoundHalfEven(100 * num, den)

\* The body of process_data.
process_data(d) ==
    LET sizes == GroupSizes(d)
    IN  { [year |-> g.year, Region |-> g.Region, District |-> g.District,
           Type |-> g.Type, Frequency |-> g.Frequency,
           percent |-> round2(g.Frequency * 100, Denominator(sizes, g)),
           percentage |-> <<round2(g.Frequency * 100, Denominator(sizes, g)), "%">>]
          : g \in sizes }

---------------------------------------------------------------------------
(* st.cache_data *)

Cached(cache, key) == \E e \in cache : e.key = key

CachedResult(cache, key) == (CHOOSE e \in cache : e.key = key).result

\* A memoization that remembers a raised exception as well.
StoreAny(cache, key, result) == cache \cup {[key |-> key, result |-> result]}

\* st.cache_data stores a returned value; an exception propagates to the
\* caller and nothing is stored.
Store(cache, key, result) ==
    IF result.raised THEN cache
    ELSE cache \cup {[key |-> key, result |-> result]}

\* The key of a call of load_data: it takes no argument, and the file it
\* reads is no part of the key.
LoadKey == <<>>

\* The key of a call of process_data: (the hash of) its argument.
ProcessKey(d) == <<d>>

---------------------------------------------------------------------------
(* main *)

\* incident_types, the display allow-list.
incident_types ==
    {"Fire", "Windstorm", "Flooding", "Building Collapse", "Mudslide", "Road Accident"}

\* df["year"].unique(): the years of the frame, the missing one included.
UniqueYears(d) == {d[i].year : i \in DOMAIN d}

\* The comparison df["year"] == year_chosen of one cell: NaN equals nothing.
YearEq(y, chosen) == y # NaNYear /\ y = chosen

\* df[df["year"] == year_chosen], then dff[dff['Type of Incident'].isin(...)].
FilterDetail(d, chosen) ==
    SelectSeq(d, LAMBDA r : YearEq(r.year, chosen) /\ r.Type \in incident_types)

\* A summary filter that applies the allow-list as well.
FilterSummaryAllowed(s, chosen) ==
    {r \in s : YearEq(r.year, chosen) /\ r.Type \in incident_types}

\* dfs[dfs["year"] == year_chosen]
FilterSummary(s, chosen) == {r \in s : YearEq(r.year, chosen)}

\* The charts main renders, in order, each with the frame it is given.
AllCharts ==
    << [fig |-> "fig_map", frame |-> "dff"],
       [fig |-> "fig_01", frame |-> "dfy"],
       [fig |-> "fig_03", frame |-> "dff"],
       [fig |-> "fig_05", frame |-> "dff"],
       [fig |-> "fig_02", frame |-> "dff"],
       [fig |-> "fig_04", frame |-> "dff"],
       [fig |-> "fig_06", frame |-> "dff"],
       [fig |-> "fig_08", frame |-> "dfy"],
       [fig |-> "fig_09", frame |-> "dff"],
       [fig |-> "fig_11", frame |-> "dff"],
       [fig |-> "fig_10", frame |-> "dff"],
       [fig |-> "fig_12", frame |-> "dff"] >>

\* load_data() as main calls it, through st.cache_data.
LoadCall ==
    IF Cached(load_cache, LoadKey)
    THEN [result |-> CachedResult(load_cache, LoadKey), ran |-> 0, cache |-> load_cache]
    ELSE [result |-> load_data(file), ran |-> 1,
          cache |-> Store(load_cache, LoadKey, load_data(file))]

\* process_data(df) as main calls it, through st.cache_data.
ProcessCall(d) ==
    IF Cached(process_cache, ProcessKey(d))
    THEN [result |-> CachedResult(process_cache, ProcessKey(d)), cache |-> process_cache]
    ELSE [result |-> [raised |-> FALSE, value |-> process_data(d)],
          cache |-> Store(process_cache, ProcessKey(d),
                          [raised |-> FALSE, value |-> process_data(d)])]

Init ==
    /\ file = <<>>
    /\ load_cache = {}
    /\ process_cache = {}
    /\ status = "none"
    /\ run_file = <<>>
    /\ load_runs = 0
    /\ load_result = "none"
    /\ errors = <<>>
    /\ df = <<>>
    /\ dfs = {}
    /\ selector = [offered |-> FALSE, options |-> {}]
    /\ year_chosen = <<>>
    /\ dff = <<>>
    /\ dfy = {}
    /\ charts = <<>>

\* The environment: a new incident is recorded in the CSV file.
AppendRow(r) ==
    /\ Len(file) < MaxRows
    /\ file' = Append(file, r)
    /\ UNCHANGED <<load_cache, process_cache, status, run_file, load_runs, load_result,
                   errors, df, dfs, selector, year_chosen, dff, dfy, charts>>

\* The environment: a date nobody could read is corrected in the CSV file.
FixDate(i, t) ==
    /\ i \in DOMAIN file
    /\ ~Parseable(file[i].date)
    /\ file' = [file EXCEPT ![i].date = t]
    /\ UNCHANGED <<load_cache, process_cache, status, run_file, load_runs, load_result,
                   errors, df, dfs, selector, year_chosen, dff, dfy, charts>>

\* The environment: the server restarts; the caches live in its memory.
Restart ==
    /\ load_cache # {} \/ process_cache # {}
    /\ load_cache' = {}
    /\ process_cache' = {}
    /\ UNCHANGED <<file, status, run_file, load_runs, load_result,
                   errors, df, dfs, selector, year_chosen, dff, dfy, charts>>

\* A run of main in which load_data or process_data raises (lines 33-38).
MainFails ==
    LET l == LoadCall
    IN  /\ l.result.raised
        /\ load_cache' = l.cache
        /\ load_runs' = l.ran
        /\ load_result' = "raised"
        /\ run_file' = file
        /\ status' = "error"
        /\ errors' = <<"Error loading or processing data">>
        /\ df' = <<>>
        /\ dfs' = {}
        /\ selector' = [offered |-> FALSE, options |-> {}]
        /\ year_chosen' = <<>>
        /\ dff' = <<>>
        /\ dfy' = {}
        /\ charts' = <<>>
        /\ UNCHANGED <<file, process_cache>>

\* A run of main that renders the page (lines 33-35 and 40-145), with the
\* year the user has in the selectbox.
MainRenders ==
    LET l == LoadCall
    IN  /\ ~l.result.raised
        /\ LET p == ProcessCall(l.result.value)
               options == UniqueYears(l.result.value)
           IN  /\ ~p.result.raised
               /\ \E y \in options :
                    /\ year_chosen' = y
                    /\ dff' = FilterDetail(l.result.value, y)
                    /\ dfy' = FilterSummary(p.result.value, y)
               /\ load_cache' = l.cache
               /\ process_cache' = p.cache
               /\ load_runs' = l.ran
               /\ load_result' = "returned"
               /\ run_file' = file
               /\ status' = "rendered"
               /\ errors' = <<>>
               /\ df' = l.result.value
               /\ dfs' = p.result.value
               /\ selector' = [offered |-> TRUE, options |-> options]
               /\ charts' = AllCharts
               /\ UNCHANGED file

Main == MainFails \/ MainRenders

Next ==
    \/ \E r \in Rows : AppendRow(r)
    \/ \E i \in 1..MaxRows, t \in DOMAIN Calendar : FixDate(i, t)
    \/ Restart
    \/ Main

Spec == Init /\ [][Next]_vars

---------------------------------------------------------------------------
(* Properties *)

\* The number of records of a frame with the same key columns as record r.
CountLike(d, r) ==
    Cardinality({j \in DOMAIN d : /\ d[j].year = r.year
                                  /\ d[j].Region = r.Region
                                  /\ d[j].District = r.District
                                  /\ d[j].Type = r.Type})

\* The summary rows with the key columns of record r.
RowsLike(s, r) ==
    {x \in s : /\ x.year = r.year
               /\ x.Region = r.Region
               /\ x.District = r.District
               /\ x.Type = r.Type}

RECURSIVE SumPercent(_)
SumPercent(rows) ==
    IF rows = {} THEN 0
    ELSE LET r == CHOOSE x \in rows : TRUE
         IN  r.percent + SumPercent(rows \ {r})

Abs(n) == IF n < 0 THEN -n ELSE n

HasBadDate(rows) == \E i \in DOMAIN rows : ~Parseable(rows[i].date)

\* The frame a rendered chart was given.
FrameRows(c) ==
    IF c.frame = "dff" THEN {[year |-> dff[i].year, Type |-> dff[i].Type] : i \in DOMAIN dff}
    ELSE {[year |-> r.year, Type |-> r.Type] : r \in dfy}

\* C1: the summary has exactly one row for each (year, Region, District, Type
\* of Incident) tuple that occurs in a record of the frame, the row's
\* Frequency is the number of records with that tuple, and there is no row
\* for a tuple that occurs in no record.
C1_OneRowPerTuple ==
    status = "rendered" =>
        /\ \A i \in DOMAIN df :
              /\ Cardinality(RowsLike(dfs, df[i])) = 1
              /\ \A x \in RowsLike(dfs, df[i]) : x.Frequency = CountLike(df, df[i])
        /\ \A x \in dfs :
              /\ x.Frequency >= 1
              /\ \E i \in DOMAIN df : x \in RowsLike(dfs, df[i])

\* C2: the Frequency column of the summary sums to the number of records of
\* the frame, also when a record has a missing year, Region, District or Type.
C2_NoRecordUncounted ==
    status = "rendered" => SumFrequency(dfs) = Len(df)

\* C3: every row's percent is its Frequency over the total Frequency of the
\* whole summary, times 100, rounded to 2 decimals (the nearest hundredth,
\* the even one on a tie); the frame of the spec's example gives 66.67 and
\* 33.33.
C3_PercentOfGrandTotal ==
    status = "rendered" =>
        LET total == SumFrequency(dfs)
        IN  /\ \A x \in dfs :
                 /\ 2 * Abs(x.percent * total - 10000 * x.Frequency) <= total
                 /\ 2 * Abs(x.percent * total - 10000 * x.Frequency) = total
                       => x.percent % 2 = 0
                 /\ x.percentage = <<x.percent, "%">>
            /\ [i \in DOMAIN run_file |-> run_file[i].Type]
                    = <<"fire", "fire", "Flash Flood">> /\ load_runs = 1
                 => {<<x.Type, x.Frequency, x.percent>> : x \in dfs}
                       = {<<"Fire", 2, 6667>>, <<"Flooding", 1, 3333>>}

\* C3's case: the frame of the spec's example was summarised.
C3_Witness ==
    /\ status = "rendered"
    /\ load_runs = 1
    /\ [i \in DOMAIN run_file |-> run_file[i].Type] = <<"fire", "fire", "Flash Flood">>
    /\ \E x \in dfs : x.percent = 6667
    /\ \E x \in dfs : x.percent = 3333

\* C4: load_data rewrites Type of Incident by exact whole-value replacement
\* ('fire' to 'Fire', 'Flash Flood' to 'Flooding', 'Bolder Roll' to 'Boulder
\* Roll'), leaves every other value as it is, and keeps the number and the
\* order of the records.
C4_ExactReplacement ==
    load_runs = 1 /\ load_result = "returned" =>
        /\ Len(df) = Len(run_file)
        /\ \A i \in DOMAIN run_file :
              /\ df[i].Region = ReadCell(run_file[i].Region)
              /\ df[i].District = ReadCell(run_file[i].District)
              /\ run_file[i].Type = "fire" => df[i].Type = "Fire"
              /\ run_file[i].Type = "Flash Flood" => df[i].Type = "Flooding"
              /\ run_file[i].Type = "Bolder Roll" => df[i].Type = "Boulder Roll"
              /\ run_file[i].Type \notin {"fire", "Flash Flood", "Bolder Roll"}
                    => df[i].Type = ReadCell(run_file[i].Type)

\* C4's case: a loaded file with a mapped value, another casing of it and a
\* value that contains it.
C4_Witness ==
    /\ load_runs = 1
    /\ load_result = "returned"
    /\ \E i, j, k \in DOMAIN run_file :
          /\ run_file[i].Type = "fire" /\ df[i].Type = "Fire"
          /\ run_file[j].Type = "FIRE" /\ df[j].Type = "FIRE"
          /\ run_file[k].Type = "Wildfire" /\ df[k].Type = "Wildfire"

\* C5: when a row of the file has a date that cannot be parsed, a run of
\* load_data's body raises and returns no frame: none with the good rows
\* only, none with the bad row's date left empty.
C5_BadDateFailsWholeLoad ==
    load_runs = 1 /\ HasBadDate(run_file) =>
        /\ load_result = "raised"
        /\ status = "error"
        /\ df = <<>>
        /\ ~Cached(load_cache, LoadKey)

\* C5's case: a file with a good row and a bad one was read, and the load failed.
C5_Witness ==
    /\ load_runs = 1
    /\ load_result = "raised"
    /\ HasBadDate(run_file)
    /\ \E i \in DOMAIN run_file : run_file[i].date \in DOMAIN Calendar

C7_TablesOfCurrentFile ==
    status # "none" =>
        LET r == load_data(run_file)
        IN  /\ r.raised => status = "error"
            /\ ~r.raised => /\ status = "rendered"
                            /\ df = r.value
                            /\ dfs = process_data(r.value)

\* C8: a file with a header and no data row is no error: load_data returns an
\* empty frame, process_data an empty summary, and neither raises.
C8_EmptyFileIsNoError ==
    status # "none" /\ load_runs = 1 /\ run_file = <<>> =>
        /\ load_result = "returned"
        /\ errors = <<>>
        /\ df = <<>>
        /\ dfs = {}

\* C9: the percent column of a non-empty summary sums to 100 within 0.005
\* for each row of the summary.
C9_PercentSumsTo100 ==
    status = "rendered" /\ dfs # {} =>
        2 * Abs(SumPercent(dfs) - 10000) <= Cardinality(dfs)

\* C9's case: a summary of three rows whose percents do not sum to 100.
C9_Witness ==
    /\ status = "rendered"
    /\ Cardinality(dfs) = 3
    /\ SumPercent(dfs) # 10000

\* C10: every row of every frame handed to a chart has the selected year and
\* a Type of Incident of the allow-list.
C10_ChartsShowAllowedTypesOnly ==
    status = "rendered" =>
        \A n \in DOMAIN charts :
            \A r \in FrameRows(charts[n]) :
                /\ r.year = year_chosen
                /\ r.Type \in incident_types

====
